---- MODULE Spec2Model ----
(***************************************************************************)
(* The ext_py worker-pool supervisor:                                      *)
(*   crates/pathfinder/src/cairo/ext_py/service.rs, fn start.              *)
(*                                                                         *)
(* start spawns one launch_python task, waits for its first status event,  *)
(* and on success spawns the supervisor task, whose loop selects over the  *)
(* stop flag, the status channel, the completion of any spawned task and   *)
(* the wait_before_spawning timer.  launch_python (sub_process.rs) and     *)
(* Handle (mod.rs) are not part of the sources at hand; the worker task    *)
(* and submit are modelled from the design document.                       *)
(***************************************************************************)
EXTENDS Integers, FiniteSets, Sequences

(* ------------------------------ bounds -------------------------------- *)
\* largest `count` start is called with
MaxCount == 3
\* total number of launch_python tasks spawned in one behaviour
MaxTasks == 4
\* number of Commands callers submit in one behaviour
MaxCmds == 1

(* ----------------------------- constants ------------------------------ *)
\* const WAIT_BEFORE_SPAWN = Duration::from_secs(1); one clock tick is 1 s
WAIT_BEFORE_SPAWN == 1
\* mpsc::channel(1) for status events
StatusCapacity == 1
\* mpsc::channel(1) for commands
CommandCapacity == 1

TaskIds == 1..MaxTasks
CmdIds == 1..MaxCmds

VARIABLES
    count,            \* count: NonZeroUsize, the desired number of processes
    stop_flag,        \* TRUE once the stop_flag future is ready
    startpc,          \* where start() is: "await_first", "err", "ok", "panic"
    first,            \* the first status event start() matched on, or "none"
    handle,           \* TRUE once the Handle has been constructed
    suppc,            \* supervisor task: "none", "select", "drain", "returned"
    joinhandles,      \* the FuturesUnordered of spawned tasks' JoinHandles
    nspawned,         \* number of tokio::task::spawn(launch_python(..)) so far
    task,             \* state of every launch_python task
    cur,              \* the Command a task has received and not yet answered
    status_ch,        \* buffer of the status channel (status_tx -> status_rx)
    command_ch,       \* buffer of the command queue (command_tx -> command_rx)
    subs,             \* tasks holding a live child_shutdown_tx.subscribe()
    sig,              \* subscriptions holding the undelivered shutdown message
    sub,              \* every submit call: "new", "waiting", "replied", "unavailable"
    replies,          \* how often each Command's reply slot was fulfilled
    zero,             \* the Command was sent while no task was live and no stop raised
    remaining,        \* time left until wait_before_spawning elapses
    sinceTimerSpawn,  \* time since the last spawn made by the timer arm
    lastExit          \* time since a completion was last consumed and not
                      \* replaced at once, -1 when the pool is not short of it

vars == <<count, stop_flag, startpc, first, handle, suppc, joinhandles,
          nspawned, task, cur, status_ch, command_ch, subs, sig, sub, replies,
          zero, remaining, sinceTimerSpawn, lastExit>>

supVars == <<suppc, joinhandles, nspawned, remaining, sinceTimerSpawn, lastExit>>
startVars == <<startpc, first, handle>>
cmdVars == <<command_ch, sub, replies, zero>>

Min(a, b) == IF a < b THEN a ELSE b

(* ------------------------- channels and timer ------------------------- *)
\* status_rx is dropped when start() returns Err and when the supervisor
\* task returns; a send on the channel then fails instead of waiting
StatusClosed == startpc \in {"err", "panic"} \/ suppc = "returned"

\* tasks that have been spawned and whose function has not returned
Live == {t \in TaskIds : task[t] \notin {"none", "exited"}}

\* variant: the queue closes with the supervisor task alone
CommandClosed_SupervisorOnly ==
    /\ startpc # "await_first"
    /\ suppc \in {"none", "returned"}

\* the Arc<Mutex<Receiver<Command>>> is held by the supervisor task and by
\* every launch_python task; the queue closes when all of them are gone
CommandClosed ==
    /\ startpc # "await_first"
    /\ suppc \in {"none", "returned"}
    /\ Live = {}

\* Sleep::is_elapsed()
is_elapsed == remaining = 0

(* ------------------------------- spawn -------------------------------- *)
\* variant: the spawner hands out no subscription of its own making
Subscribe_Late(s, id) == s

\* child_shutdown_tx.subscribe(), evaluated by the spawner as an argument
\* of launch_python(..), before the task exists
Subscribe(s, id) == s \cup {id}

\* tokio::task::spawn(launch_python(..)); joinhandles.push(jh)
SpawnInto(jh) ==
    /\ nspawned < MaxTasks
    /\ nspawned' = nspawned + 1
    /\ task' = [task EXCEPT ![nspawned + 1] = "spawned"]
    /\ subs' = Subscribe(subs, nspawned + 1)
    /\ joinhandles' = jh \cup {nspawned + 1}

\* variant: the Handle is made and given out before the first event is awaited
Init_HandleFirst ==
    /\ count \in 1..MaxCount
    /\ stop_flag = FALSE
    /\ startpc = "await_first"
    /\ first = "none"
    /\ handle = TRUE
    /\ suppc = "none"
    /\ joinhandles = {1}
    /\ nspawned = 1
    /\ task = [t \in TaskIds |-> IF t = 1 THEN "spawned" ELSE "none"]
    /\ cur = [t \in TaskIds |-> 0]
    /\ status_ch = <<>>
    /\ command_ch = <<>>
    /\ subs = Subscribe({}, 1)
    /\ sig = {}
    /\ sub = [c \in CmdIds |-> "new"]
    /\ replies = [c \in CmdIds |-> 0]
    /\ zero = [c \in CmdIds |-> FALSE]
    /\ remaining = WAIT_BEFORE_SPAWN
    /\ sinceTimerSpawn = WAIT_BEFORE_SPAWN
    /\ lastExit = -1

Init ==
    /\ count \in 1..MaxCount
    /\ stop_flag = FALSE
    /\ startpc = "await_first"
    /\ first = "none"
    /\ handle = FALSE
    /\ suppc = "none"
    /\ joinhandles = {1}
    /\ nspawned = 1
    /\ task = [t \in TaskIds |-> IF t = 1 THEN "spawned" ELSE "none"]
    /\ cur = [t \in TaskIds |-> 0]
    /\ status_ch = <<>>
    /\ command_ch = <<>>
    /\ subs = Subscribe({}, 1)
    /\ sig = {}
    /\ sub = [c \in CmdIds |-> "new"]
    /\ replies = [c \in CmdIds |-> 0]
    /\ zero = [c \in CmdIds |-> FALSE]
    /\ remaining = WAIT_BEFORE_SPAWN
    /\ sinceTimerSpawn = WAIT_BEFORE_SPAWN
    /\ lastExit = -1

(* ------------------------------ start() ------------------------------- *)
\* variant: a Failure as first event does not stop start()
FirstEventOk_Lenient(evt) == evt \in {"Launched", "Failure"}

\* the match on the first status event: only ProcessLaunched lets start go on
FirstEventOk(evt) == evt = "Launched"

\* match status_rx.recv().await { .. }, then Handle { .. }, the spawn of the
\* supervisor task (which creates the timer) and Ok((handle, jh))
StartRecv ==
    /\ startpc = "await_first"
    /\ status_ch # <<>>
    /\ first' = Head(status_ch)
    /\ IF FirstEventOk(Head(status_ch))
       THEN /\ startpc' = "ok"
            /\ handle' = TRUE
            /\ suppc' = "select"
            /\ status_ch' = Tail(status_ch)
       ELSE /\ startpc' = IF Head(status_ch) = "Failure" THEN "err" ELSE "panic"
            /\ handle' = FALSE
            /\ suppc' = suppc
            /\ status_ch' = <<>>
    /\ remaining' = WAIT_BEFORE_SPAWN
    /\ UNCHANGED <<count, stop_flag, joinhandles, nspawned, task, cur, subs,
                   sig, cmdVars, sinceTimerSpawn, lastExit>>

(* ------------------------ the supervisor's loop ----------------------- *)
\* variant: a completion is never replaced at once
JoinSpawn_Never(jh) == FALSE

\* variant: a completion is replaced at once whenever the pool is short
JoinSpawn_Short(jh) == Cardinality(jh) < count

\* variant: the last completion is replaced at once only if the timer has
\* elapsed
JoinSpawn_Cooldown(jh) == jh = {} /\ is_elapsed

\* spawn = joinhandles.is_empty();
JoinSpawn(jh) == jh = {}

\* variant: the timer arm stops one short of count
TimerSpawn_OffByOne(jh) == count > Cardinality(jh) + 1

\* variant: the timer arm also spawns when the pool is exactly at count
TimerSpawn_Inclusive(jh) == count >= Cardinality(jh)

\* spawn = count.get() > joinhandles.len();
TimerSpawn(jh) == count > Cardinality(jh)

\* else if count.get() > joinhandles.len() && wait_before_spawning.is_elapsed()
NeedReset(jh) == count > Cardinality(jh) /\ is_elapsed

\* the code after the select!: if spawn { .. } else if .. { reset(now + WAIT) }
LoopTail(sp, jh, arm) ==
    /\ IF sp
       THEN /\ SpawnInto(jh)
            /\ remaining' = remaining
       ELSE /\ joinhandles' = jh
            /\ remaining' = IF NeedReset(jh) THEN WAIT_BEFORE_SPAWN ELSE remaining
            /\ UNCHANGED <<nspawned, task, subs>>
    /\ sinceTimerSpawn' = IF sp /\ arm = "timer" THEN 0 ELSE sinceTimerSpawn
    /\ lastExit' = IF Cardinality(joinhandles') >= count \/ (arm = "join" /\ sp)
                   THEN -1
                   ELSE IF arm = "join" THEN 0 ELSE lastExit

\* _ = &mut stop_flag => { let _ = child_shutdown_tx.send(()); ..
SupStop ==
    /\ suppc = "select"
    /\ stop_flag
    /\ sig' = subs
    /\ suppc' = "drain"
    /\ UNCHANGED <<count, stop_flag, startVars, joinhandles, nspawned, task,
                   cur, status_ch, subs, cmdVars, remaining, sinceTimerSpawn,
                   lastExit>>

\* variant: the stop arm keeps treating completions as the loop does, and so
\* replaces the last task to finish
SupDrain_Respawn ==
    /\ suppc = "drain"
    /\ \E t \in joinhandles :
          /\ task[t] = "exited"
          /\ LoopTail(JoinSpawn(joinhandles \ {t}), joinhandles \ {t}, "join")
    /\ UNCHANGED <<count, stop_flag, startVars, suppc, cur, status_ch, sig,
                   cmdVars>>

\* let _ = joinhandles.into_future().await; return;
\* StreamExt::into_future resolves with the stream's next item: at once when
\* the stream is empty, else as soon as one of the tasks has completed
SupDrain ==
    /\ suppc = "drain"
    /\ IF joinhandles = {} THEN TRUE
       ELSE \E t \in joinhandles : task[t] = "exited"
    /\ suppc' = "returned"
    /\ joinhandles' = {}
    /\ status_ch' = <<>>
    /\ UNCHANGED <<count, stop_flag, startVars, nspawned, task, cur, subs, sig,
                   cmdVars, remaining, sinceTimerSpawn, lastExit>>

\* variant: a Failure event makes the loop replace the task when short
StatusSpawn_OnFailure(evt, jh) == evt = "Failure" /\ count > Cardinality(jh)

\* let mut spawn = false; match evt { .. }: no arm of the match assigns spawn
StatusSpawn(evt, jh) == FALSE

\* Some(evt) = status_rx.recv() => match evt { .. } : every arm is empty
SupStatus ==
    /\ suppc = "select"
    /\ status_ch # <<>>
    /\ status_ch' = Tail(status_ch)
    /\ LoopTail(StatusSpawn(Head(status_ch), joinhandles), joinhandles, "status")
    /\ UNCHANGED <<count, stop_flag, startVars, suppc, cur, sig, cmdVars>>

\* variant: the completion of a task ends the supervisor task
SupJoin_Fatal ==
    /\ suppc = "select"
    /\ \E t \in joinhandles : task[t] = "exited"
    /\ suppc' = "returned"
    /\ joinhandles' = {}
    /\ status_ch' = <<>>
    /\ UNCHANGED <<count, stop_flag, startVars, nspawned, task, cur, subs, sig,
                   cmdVars, remaining, sinceTimerSpawn, lastExit>>

\* Some(_maybe_info) = joinhandles.next() => { spawn = joinhandles.is_empty(); }
SupJoin ==
    /\ suppc = "select"
    /\ \E t \in joinhandles :
          /\ task[t] = "exited"
          /\ LoopTail(JoinSpawn(joinhandles \ {t}), joinhandles \ {t}, "join")
    /\ UNCHANGED <<count, stop_flag, startVars, suppc, cur, status_ch, sig,
                   cmdVars>>

\* _ = &mut wait_before_spawning => { spawn = count.get() > joinhandles.len(); }
\* a Sleep that has elapsed stays ready until it is reset
SupTimer ==
    /\ suppc = "select"
    /\ is_elapsed
    /\ LoopTail(TimerSpawn(joinhandles), joinhandles, "timer")
    /\ UNCHANGED <<count, stop_flag, startVars, suppc, cur, status_ch, sig,
                   cmdVars>>

\* the stop_flag future handed to start() becomes ready
RequestStop ==
    /\ ~stop_flag
    /\ stop_flag' = TRUE
    /\ UNCHANGED <<count, startVars, supVars, task, cur, status_ch, subs, sig,
                   cmdVars>>

\* one second passes on the runtime's clock; the clocks are read by the
\* loop only, so time is followed while the loop runs
Tick ==
    /\ suppc = "select"
    /\ \/ remaining > 0
       \/ sinceTimerSpawn < WAIT_BEFORE_SPAWN
       \/ lastExit \in 0..(WAIT_BEFORE_SPAWN - 1)
    /\ remaining' = IF remaining > 0 THEN remaining - 1 ELSE 0
    /\ sinceTimerSpawn' = Min(sinceTimerSpawn + 1, WAIT_BEFORE_SPAWN)
    /\ lastExit' = IF lastExit = -1 THEN -1 ELSE Min(lastExit + 1, WAIT_BEFORE_SPAWN)
    /\ UNCHANGED <<count, stop_flag, startVars, suppc, joinhandles, nspawned,
                   task, cur, status_ch, subs, sig, cmdVars>>

(* ----------------------- Handle::submit (callers) ---------------------- *)
\* command_tx.send(cmd).await: waits for room in the queue, fails once the
\* receiver is gone.  Commands are interchangeable: of the callers still to
\* send, the one with the least index is taken to be the next to get through
Submit(c) ==
    /\ handle
    /\ sub[c] = "new"
    /\ \A d \in CmdIds : d < c => sub[d] # "new"
    /\ IF CommandClosed
       THEN /\ sub' = [sub EXCEPT ![c] = "unavailable"]
            /\ UNCHANGED <<command_ch, zero>>
       ELSE /\ Len(command_ch) < CommandCapacity
            /\ command_ch' = Append(command_ch, c)
            /\ sub' = [sub EXCEPT ![c] = "waiting"]
            /\ zero' = [zero EXCEPT ![c] = (Live = {} /\ ~stop_flag)]
    /\ UNCHANGED <<count, stop_flag, startVars, supVars, task, cur, status_ch,
                   subs, sig, replies>>

\* the queue is dropped with Commands still in it: their reply slots are
\* dropped and the submitters see the pool as gone
DropQueued ==
    /\ CommandClosed
    /\ command_ch # <<>>
    /\ sub' = [c \in CmdIds |->
                 IF \E i \in 1..Len(command_ch) : command_ch[i] = c
                 THEN "unavailable" ELSE sub[c]]
    /\ command_ch' = <<>>
    /\ UNCHANGED <<count, stop_flag, startVars, supVars, task, cur, status_ch,
                   subs, sig, replies, zero>>

(* ------------------------- launch_python tasks ------------------------- *)
\* the task function returns: its shutdown subscription is dropped with it
Exit(t) ==
    /\ task' = [task EXCEPT ![t] = "exited"]
    /\ subs' = subs \ {t}
    /\ sig' = sig \ {t}

\* status_tx.send(evt).await: waits for room in the channel, and fails at
\* once when status_rx is gone
StatusSend(evt) ==
    IF StatusClosed
    THEN status_ch' = status_ch
    ELSE /\ Len(status_ch) < StatusCapacity
         /\ status_ch' = Append(status_ch, evt)

\* Spawning: the external process came up; report Launched and wait for work
WorkerLaunched(t) ==
    /\ task[t] = "spawned"
    /\ StatusSend("Launched")
    /\ task' = [task EXCEPT ![t] = "idle"]
    /\ UNCHANGED <<count, stop_flag, startVars, supVars, cur, subs, sig,
                   cmdVars>>

\* Spawning: the external process could not be launched; report Failed(None)
\* and end
WorkerLaunchFailed(t) ==
    /\ task[t] = "spawned"
    /\ StatusSend("Failure")
    /\ Exit(t)
    /\ UNCHANGED <<count, stop_flag, startVars, supVars, cur, cmdVars>>

\* a task that has answered a Command reports Handled and waits for work
WorkerReport(t) ==
    /\ task[t] = "sendH"
    /\ StatusSend("Handled")
    /\ task' = [task EXCEPT ![t] = "idle"]
    /\ UNCHANGED <<count, stop_flag, startVars, supVars, cur, subs, sig,
                   cmdVars>>

\* a task whose process died reports Failed(Some(pid)) and ends
WorkerFail(t) ==
    /\ task[t] = "sendF"
    /\ StatusSend("Failure")
    /\ Exit(t)
    /\ UNCHANGED <<count, stop_flag, startVars, supVars, cur, cmdVars>>

\* variant: the receiver hands out the Command and leaves it in the queue
Take_Peek(q) == q

\* what recv() on the shared receiver leaves in the queue
Take(q) == Tail(q)

\* Running: under the mutex around the shared receiver, the task receives
\* the next Command
WorkerRecv(t) ==
    /\ task[t] = "idle"
    /\ command_ch # <<>>
    /\ cur' = [cur EXCEPT ![t] = Head(command_ch)]
    /\ command_ch' = Take(command_ch)
    /\ task' = [task EXCEPT ![t] = "busy"]
    /\ UNCHANGED <<count, stop_flag, startVars, supVars, status_ch, subs, sig,
                   sub, replies, zero>>

\* the reply slot of the task's current Command is fulfilled by the task
Reply(t) ==
    /\ cur' = [cur EXCEPT ![t] = 0]
    /\ IF cur[t] = 0
       THEN UNCHANGED <<sub, replies>>
       ELSE /\ sub' = [sub EXCEPT ![cur[t]] = "replied"]
            /\ replies' = [replies EXCEPT ![cur[t]] = @ + 1]
    /\ UNCHANGED <<command_ch, zero>>

\* Running: the external process answered; fulfil the reply slot, then report
WorkerFinish(t) ==
    /\ task[t] = "busy"
    /\ Reply(t)
    /\ task' = [task EXCEPT ![t] = "sendH"]
    /\ UNCHANGED <<count, stop_flag, startVars, supVars, status_ch, subs, sig>>

\* Running: the external process died; a Command in hand gets the failure as
\* its outcome, then the task reports Failed and ends
WorkerCrash(t) ==
    /\ task[t] \in {"idle", "busy"}
    /\ Reply(t)
    /\ task' = [task EXCEPT ![t] = "sendF"]
    /\ UNCHANGED <<count, stop_flag, startVars, supVars, status_ch, subs, sig>>

\* Running: the Shutdown Signal is observed while waiting for a Command
WorkerShutdown(t) ==
    /\ task[t] = "idle"
    /\ t \in sig
    /\ Exit(t)
    /\ UNCHANGED <<count, stop_flag, startVars, supVars, cur, status_ch,
                   cmdVars>>

Worker(t) ==
    \/ WorkerLaunched(t)
    \/ WorkerLaunchFailed(t)
    \/ WorkerReport(t)
    \/ WorkerFail(t)
    \/ WorkerRecv(t)
    \/ WorkerFinish(t)
    \/ WorkerCrash(t)
    \/ WorkerShutdown(t)

Next ==
    \/ StartRecv
    \/ SupStop
    \/ SupDrain
    \/ SupStatus
    \/ SupJoin
    \/ SupTimer
    \/ RequestStop
    \/ Tick
    \/ DropQueued
    \/ \E c \in CmdIds : Submit(c)
    \/ \E t \in TaskIds : Worker(t)

Spec == Init /\ [][Next]_vars

\* What the runtime guarantees: a ready task is polled; select! picks among
\* its ready arms at random, so an arm that is ready again and again is
\* taken; time passes; a process that is being launched comes up or fails,
\* and one that was sent a Command answers or dies.
Fairness ==
    /\ WF_vars(StartRecv)
    /\ WF_vars(Tick)
    /\ SF_vars(SupTimer)
    /\ WF_vars(SupJoin)
    /\ WF_vars(SupStatus)
    /\ WF_vars(SupStop)
    /\ WF_vars(SupDrain)
    /\ \A t \in TaskIds :
          /\ WF_vars(WorkerLaunched(t) \/ WorkerLaunchFailed(t))
          /\ WF_vars(WorkerReport(t))
          /\ WF_vars(WorkerFail(t))
          /\ WF_vars(WorkerRecv(t))
          /\ WF_vars(WorkerFinish(t))
          /\ WF_vars(WorkerShutdown(t))

LiveSpec == Init /\ [][Next]_vars /\ Fairness

\* the pool while no stop is requested: stop_flag stays pending
NextRun ==
    \/ StartRecv
    \/ SupStatus
    \/ SupJoin
    \/ SupTimer
    \/ Tick
    \/ \E c \in CmdIds : Submit(c)
    \/ \E t \in TaskIds :
          \/ WorkerLaunched(t)
          \/ WorkerLaunchFailed(t)
          \/ WorkerReport(t)
          \/ WorkerFail(t)
          \/ WorkerRecv(t)
          \/ WorkerFinish(t)
          \/ WorkerCrash(t)

RunSpec == Init /\ [][NextRun]_vars /\ Fairness

\* the pool while no stop is requested and no process fails or dies
NextFill ==
    \/ StartRecv
    \/ SupStatus
    \/ SupTimer
    \/ Tick
    \/ \E c \in CmdIds : Submit(c)
    \/ \E t \in TaskIds :
          \/ WorkerLaunched(t)
          \/ WorkerReport(t)
          \/ WorkerRecv(t)
          \/ WorkerFinish(t)

FillSpec == Init /\ [][NextFill]_vars /\ Fairness

TypeOK ==
    /\ count \in 1..MaxCount
    /\ joinhandles \subseteq TaskIds
    /\ nspawned \in 1..MaxTasks
    /\ remaining \in 0..WAIT_BEFORE_SPAWN
    /\ Len(status_ch) <= StatusCapacity
    /\ Len(command_ch) <= CommandCapacity
    /\ sig \subseteq subs
    /\ subs = Live
    /\ suppc = "select" => joinhandles # {}

(* ============================== claims ================================ *)
\* the stop arm of the select! has been taken
Stopped == suppc \in {"drain", "returned"}

\* a step of the loop in which the timer arm spawns: a task is added and
\* none is removed
TimerSpawnStep ==
    /\ suppc = "select"
    /\ nspawned' = nspawned + 1
    /\ joinhandles \subseteq joinhandles'

\* C1 (graceful drain): when the supervisor task has returned, i.e. when the
\* JoinHandle start() gave out resolves, every launch_python task that was
\* ever spawned has exited.
C1_GracefulDrain == suppc = "returned" => Live = {}

\* C2 (cooldown respected): a spawn by the timer arm is never made less than
\* WAIT_BEFORE_SPAWN after the previous spawn by the timer arm.
C2_CooldownRespected ==
    [][TimerSpawnStep => sinceTimerSpawn >= WAIT_BEFORE_SPAWN]_vars

\* C3 (bootstrap fails fast): if the first status event is a Failure, start
\* has returned the error, no Handle exists, the supervisor task was never
\* spawned and the first task is the only one ever spawned.
C3_BootstrapFailsFast ==
    first = "Failure" =>
        /\ startpc = "err"
        /\ ~handle
        /\ suppc = "none"
        /\ nspawned = 1

\* the first event was a Failure although more than one process was asked for
C3_Witness == first = "Failure" /\ count = MaxCount /\ task[1] = "exited"

\* C4 (no post-stop spawns): in the step that takes the stop arm and in every
\* step after it, no task is spawned and the outstanding set does not grow.
C4_NoPostStopSpawns ==
    [][(Stopped \/ Stopped') =>
          /\ nspawned' = nspawned
          /\ joinhandles' \subseteq joinhandles
          /\ \A t \in TaskIds : task[t] = "none" => task'[t] = "none"]_vars

\* while draining, the timer has elapsed, the pool is short and every task
\* of the pool has finished: the loop would spawn here, the stop arm does not
C4_Witness ==
    /\ suppc = "drain"
    /\ is_elapsed
    /\ Cardinality(joinhandles) < count
    /\ nspawned < MaxTasks
    /\ Live = {}

\* C5 (replacement on crash): while no stop has been observed and the pool
\* is short after a consumed completion that left tasks in the pool, the
\* replacement is due within one cooldown interval of that completion: the
\* time since it was consumed plus the time until the timer lets the loop
\* spawn is at most WAIT_BEFORE_SPAWN, whatever status events arrive.
C5_ReplacementWithinCooldown ==
    (suppc = "select" /\ lastExit >= 0 /\ Cardinality(joinhandles) < count)
        => lastExit + remaining <= WAIT_BEFORE_SPAWN

C7_Scenario ==
    /\ suppc = "select"
    /\ count = 3
    /\ nspawned = 3
    /\ 1 \in joinhandles
    /\ Cardinality(joinhandles) = 2
    /\ lastExit = 0
    /\ \E x \in joinhandles \ {1} : task[x] = "exited"

C10_ShutdownFanOut ==
    Stopped => \A t \in Live : t \in subs /\ t \in sig

\* the signal was broadcast while a task of the pool was spawned but had not
\* started, and while another was busy with a Command
C10_Witness ==
    /\ suppc = "drain"
    /\ \E t \in joinhandles : task[t] = "spawned" /\ t \in sig
    /\ \E t \in joinhandles : task[t] = "busy" /\ t \in sig

\* C8 (startup success and fill-up): the step in which start() takes a
\* Launched first event produces the Handle and the supervisor task with
\* exactly one task spawned; and with no stop requested and no task exiting
\* (FillSpec), the pool grows to count tasks and stays there.
C8_StartupFillUp ==
    /\ [][(startpc = "await_first" /\ startpc' # "await_first"
                                  /\ first' = "Launched")
             => /\ startpc' = "ok"
                /\ handle'
                /\ suppc' = "select"
                /\ nspawned' = 1
                /\ joinhandles' = {1}]_vars
    /\ <>[](suppc = "select" /\ Cardinality(joinhandles) = count)

\* the pool has grown from one task to three, with no stop and no exit
C8_Witness ==
    /\ startpc = "ok"
    /\ count = 3
    /\ Cardinality(joinhandles) = 3
    /\ ~stop_flag
    /\ \A t \in TaskIds : task[t] # "exited"

\* C9 (submit with a fully crashed pool): a Command sent while no task was
\* live and no stop was raised does not fail while the loop runs; while it
\* waits, the loop never leaves the pool empty (the last completion is
\* replaced in the iteration that consumes it); when it has resolved, its
\* reply slot was fulfilled once, by the task that claimed it.
C9_CrashedPoolSubmit ==
    \A c \in CmdIds : (zero[c] /\ suppc = "select") =>
        /\ sub[c] \in {"waiting", "replied"}
        /\ sub[c] = "waiting" => joinhandles # {}
        /\ sub[c] = "replied" => replies[c] = 1

\* such a Command does resolve, unless a stop is requested or the model's
\* supply of tasks runs out (under RunSpec)
C9_Resolves ==
    \A c \in CmdIds :
        [](zero[c] => <>(sub[c] = "replied" \/ stop_flag \/ nspawned = MaxTasks))

\* a Command sent to a fully crashed pool was answered by a replacement
C9_Witness ==
    \E c \in CmdIds :
        /\ zero[c]
        /\ sub[c] = "replied"
        /\ suppc = "select"
        /\ ~stop_flag
        /\ nspawned < MaxTasks

\* the Command c sits unclaimed in the queue
Queued(c) == \E i \in 1..Len(command_ch) : command_ch[i] = c

C12_PoolSizeBound == ~Stopped => Cardinality(joinhandles) <= count

\* the pool is back at count after a completion was consumed, with the
\* timer elapsed and another completion pending
C12_Witness ==
    /\ suppc = "select"
    /\ count = MaxCount
    /\ Cardinality(joinhandles) = count
    /\ is_elapsed
    /\ \E t \in joinhandles : task[t] = "exited"
    /\ \E t \in TaskIds \ joinhandles : task[t] = "exited"

\* a step of the loop in which the join arm consumes a completion: a
\* JoinHandle leaves joinhandles
JoinStep == suppc = "select" /\ joinhandles \ joinhandles' # {}

\* C13 (emergency respawn): an iteration that consumes a completion and is
\* left with an empty set spawns exactly one task, whatever the timer says,
\* and leaves the timer alone; one that is left with a non-empty set spawns
\* nothing; and an iteration that spawns without consuming a completion is
\* one of the timer arm, taken with the timer elapsed and the pool short.
C13_EmergencyRespawn ==
    [][/\ (JoinStep /\ Cardinality(joinhandles) = 1) =>
             /\ nspawned' = nspawned + 1
             /\ joinhandles' = {nspawned'}
             /\ task'[nspawned'] = "spawned"
             /\ remaining' = remaining
       /\ (JoinStep /\ Cardinality(joinhandles) > 1) =>
             /\ nspawned' = nspawned
             /\ joinhandles' \subseteq joinhandles
             /\ Cardinality(joinhandles') = Cardinality(joinhandles) - 1
             /\ task' = task
       /\ (suppc = "select" /\ ~JoinStep /\ nspawned' # nspawned) =>
             /\ is_elapsed
             /\ Cardinality(joinhandles) < count]_vars

\* with count = 1 the timer arm never spawns: the second task was spawned by
\* the join arm, and as the timer is then never reset, it was spawned before
\* the timer had elapsed
C13_Witness ==
    /\ suppc = "select"
    /\ count = 1
    /\ nspawned = 2
    /\ joinhandles = {2}
    /\ task[1] = "exited"
    /\ ~is_elapsed

\* a step of the loop in which the status arm consumes the event evt
StatusStep(evt) ==
    /\ suppc = "select"
    /\ status_ch # <<>>
    /\ Head(status_ch) = evt
    /\ status_ch' = Tail(status_ch)

\* C14 (Handled and Failure events leave the pool alone): an iteration that
\* consumes a CommandHandled or a Failure event neither adds a JoinHandle to
\* joinhandles nor removes one, and spawns no task; joinhandles changes only
\* in iterations that consume a completion or spawn.
C14_StatusLeavesPool ==
    [][/\ (StatusStep("Handled") \/ StatusStep("Failure")) =>
             /\ joinhandles' = joinhandles
             /\ nspawned' = nspawned
             /\ task' = task
             /\ count' = count
       /\ (suppc = "select" /\ joinhandles' # joinhandles) =>
             /\ JoinStep \/ nspawned' = nspawned + 1
             /\ status_ch' = status_ch]_vars

\* the first task has failed and its Failure event was consumed while it is
\* still outstanding; the Command sent while no task was live was answered
\* by the second task, which is idle again, and its CommandHandled event was
\* consumed; the pool is short of count
C14_Witness ==
    /\ suppc = "select"
    /\ ~stop_flag
    /\ status_ch = <<>>
    /\ nspawned = 2
    /\ joinhandles = {1, 2}
    /\ Cardinality(joinhandles) < count
    /\ task[1] = "exited"
    /\ task[2] = "idle"
    /\ \E c \in CmdIds : zero[c] /\ replies[c] = 1

\* C15 (Launched events leave the supervisor alone): an iteration that
\* consumes a ProcessLaunched event leaves joinhandles, count, the number of
\* tasks spawned and the deadline of wait_before_spawning as they were; the
\* iteration takes no time, so the deadline is kept iff the time left is.
C15_LaunchedLeavesState ==
    [][StatusStep("Launched") =>
          /\ joinhandles' = joinhandles
          /\ count' = count
          /\ nspawned' = nspawned
          /\ remaining' = remaining]_vars

\* C16 (worker failures are not fatal to the supervisor): once start has
\* succeeded the supervisor task is in its loop, unless the stop flag was
\* raised and the stop arm taken; before start has succeeded there is no
\* supervisor task.
C16_OnlyStopEndsLoop ==
    /\ startpc = "ok" => \/ suppc = "select"
                         \/ stop_flag /\ suppc \in {"drain", "returned"}
    /\ startpc # "ok" => suppc = "none"

\* the loop is running, no stop was requested, and every task spawned so far
\* but the last has failed: at launch, with a Command in hand, or idle
C16_Witness ==
    /\ suppc = "select"
    /\ ~stop_flag
    /\ nspawned = MaxTasks
    /\ \A t \in 1..(MaxTasks - 1) : task[t] = "exited"
    /\ \E c \in CmdIds : replies[c] = 1

\* C17 (the unreachable!() arms of start): start never takes one of the two
\* unreachable!() arms, the first event it matches on is never
\* CommandHandled, and while it waits for the first event there is no
\* Handle, no Command was submitted, and no task holds or has answered one.
C17_FirstEventNotHandled ==
    /\ startpc # "panic"
    /\ first \in {"none", "Launched", "Failure"}
    /\ startpc = "await_first" =>
          /\ first = "none"
          /\ ~handle
          /\ command_ch = <<>>
          /\ \A c \in CmdIds : sub[c] = "new" /\ replies[c] = 0
          /\ \A t \in TaskIds : task[t] \in {"none", "spawned", "idle", "sendF", "exited"}
          /\ \A i \in 1..Len(status_ch) : status_ch[i] # "Handled"

\* start has matched on its first event, a ProcessLaunched, and later a
\* CommandHandled event is in the status channel
C17_Witness ==
    /\ first = "Launched"
    /\ startpc = "ok"
    /\ status_ch # <<>>
    /\ Head(status_ch) = "Handled"

\* the task t is suspended in status_tx.send(evt).await: the channel is full
\* and its receiver is alive
SendBlocked(t, states) ==
    /\ task[t] \in states
    /\ ~StatusClosed
    /\ Len(status_ch) >= StatusCapacity

\* C18 (teardown terminates): while the supervisor waits in the stop arm it
\* receives no status event, so a task suspended in a send stays suspended
\* until the supervisor returns; hence at no time in the stop arm is every
\* outstanding task suspended reporting the Command it has just finished.
C18_TeardownTerminates ==
    suppc = "drain" =>
       \/ joinhandles = {}
       \/ \E t \in joinhandles : ~SendBlocked(t, {"sendH"})

\* the same for a task suspended in any of its sends (ProcessLaunched,
\* CommandHandled, Failure)
C18_AnySend ==
    suppc = "drain" =>
       \/ joinhandles = {}
       \/ \E t \in joinhandles : ~SendBlocked(t, {"spawned", "sendH", "sendF"})

\* the pool is at full strength and nothing is pending for the loop: no stop
\* request, no status event, no completion
FullAndIdle ==
    /\ suppc = "select"
    /\ Cardinality(joinhandles) = count
    /\ ~stop_flag
    /\ status_ch = <<>>
    /\ \A t \in joinhandles : task[t] # "exited"

\* C19 (quiescence at full strength): with the pool at count and nothing
\* pending, no arm of the select! is ready, the timer arm included: the
\* loop stays suspended until something happens.
C19_QuiescentAtFullStrength ==
    FullAndIdle => ~ENABLED (SupStop \/ SupStatus \/ SupJoin \/ SupTimer)

\* C20 (bounded spawn rate): at most one emergency spawn is made within one
\* cooldown interval.  With count = 1 the timer arm never spawns and the
\* timer is never reset, so as long as the timer created with the loop has
\* not elapsed, every task but the first was spawned by the join arm within
\* that one interval: there is at most one such task.
C20_BoundedSpawnRate ==
    (suppc = "select" /\ count = 1 /\ remaining = WAIT_BEFORE_SPAWN) =>
       nspawned <= 2

====
